---- MODULE Spec2Model ----
(***************************************************************************)
(* sat-x: host telemetry collector with a curve-driven fan controller.     *)
(*                                                                         *)
(* Five specifications over one set of variables:                          *)
(*   SpecCurve   the pure computations (curve validation, curve scan, PWM  *)
(*               conversion) applied to bounded inputs;                    *)
(*   SpecFan     the FanControlService singleton called with arbitrary     *)
(*               temperatures and write outcomes;                          *)
(*   SpecReader  MetricsService.get_system_metrics() on a host whose       *)
(*               signals can each be read or not;                          *)
(*   SpecApi     the metrics table, the collector's write into it and the  *)
(*               two query endpoints;                                      *)
(*   Spec        the application lifespan: startup, the two periodic       *)
(*               background tasks, and the shutdown sequence.              *)
(*                                                                         *)
(* Python's None is the empty tuple and a present value x is <<x>>, so     *)
(* that `a != b` between an int and None is an ordinary comparison.        *)
(***************************************************************************)
EXTENDS Integers, Sequences, FiniteSets, TLC

VARIABLES
    settings,          \* config.settings: the loaded Settings object
    last_pwm_written,  \* FanControlService._last_pwm_written
    call,              \* the most recent call into FanControlService
    last_ctl_write,    \* the most recent write attempt on the control path
    ev,                \* the most recent pure computation (SpecCurve)
    sup_pc,            \* where lifespan() stands
    background_tasks,  \* main.background_tasks: the tasks not yet done
    task,              \* per background task: its coroutine's position and fate
    todo,              \* list(background_tasks) still to be visited at shutdown
    waited,            \* seconds spent in the current asyncio.wait_for
    elapsed,           \* seconds since shutdown began
    logged,            \* the log records written by lifespan and the loops
    pool_disposed,     \* engine.dispose() of the shutdown sequence has run
    metrics_table,     \* the rows of the `metrics` table, in insertion order
    response           \* the most recent answer of the query API or of the reader

lifeVars == <<sup_pc, background_tasks, task, todo, waited, elapsed, logged, pool_disposed>>

apiVars == <<metrics_table, response>>

vars == <<settings, last_pwm_written, call, last_ctl_write, ev, apiVars, lifeVars>>

None == <<>>
Some(x) == <<x>>

\* the orders in which the elements of S can be listed
Perms(S) ==
    {f \in [1..Cardinality(S) -> S] : \A x \in S : \E i \in 1..Cardinality(S) : f[i] = x}

Max(a, b) == IF a >= b THEN a ELSE b
Min(a, b) == IF a <= b THEN a ELSE b

(***************************************************************************)
(* Bounds of the model.                                                    *)
(***************************************************************************)
MaxCurveLen == 3         \* longest curve handed to the validator (SpecCurve)
MaxSpeedPercent == 100   \* FanCurvePoint.speed: le=100

CurveTemps == {40, 60, 80}
CurveSpeeds == {0, 50, 100}
ProbeTemps == {39, 40, 59, 60, 61, 80, 100}

FanCurvePoint == [temp : CurveTemps, speed : CurveSpeeds]

RawCurves == UNION {[1..n -> FanCurvePoint] : n \in 0..MaxCurveLen}

ExampleCurve ==
    << [temp |-> 40, speed |-> 0],
       [temp |-> 60, speed |-> 50],
       [temp |-> 80, speed |-> 100] >>

(***************************************************************************)
(* config.py: FanControlSettings.check_curve_sorted                        *)
(***************************************************************************)
RECURSIVE insert_sorted(_, _)
insert_sorted(x, s) ==
    IF s = <<>> THEN <<x>>
    ELSE IF x < Head(s) THEN <<x>> \o s
    ELSE <<Head(s)>> \o insert_sorted(x, Tail(s))

\* sorted(temps): a stable ascending sort
RECURSIVE sorted(_)
sorted(s) ==
    IF s = <<>> THEN <<>>
    ELSE insert_sorted(s[Len(s)], sorted(SubSeq(s, 1, Len(s) - 1)))

\* faulty variant: only the first and the last temperature are compared
check_curve_sorted_endpoints(v) ==
    IF v = <<>> THEN TRUE
    ELSE v[1].temp <= v[Len(v)].temp

\* TRUE when the validator returns v, FALSE when it raises ValueError
check_curve_sorted(v) ==
    IF v = <<>> THEN TRUE
    ELSE LET temps == [i \in 1..Len(v) |-> v[i].temp]
         IN  temps = sorted(temps)

(***************************************************************************)
(* fan_control_service.py: the curve scan of adjust_fan_speed (l.45-52)    *)
(* and the PWM conversion (l.55).                                          *)
(***************************************************************************)
FAN_MAX_PWM == 255

\* faulty variant: the comparison excludes the breakpoint's own temperature
RECURSIVE scan_curve_strict(_, _, _, _)
scan_curve_strict(curve, i, current_temp, acc) ==
    IF i > Len(curve) THEN acc
    ELSE IF current_temp > curve[i].temp
         THEN scan_curve_strict(curve, i + 1, current_temp, curve[i].speed)
         ELSE acc

\* faulty variant: the scan stops at the first breakpoint not above the temperature
scan_curve_first_match(curve, i, current_temp, acc) ==
    IF i > Len(curve) THEN acc
    ELSE IF current_temp >= curve[i].temp THEN curve[i].speed
         ELSE acc

\* the for loop from index i on, with target_speed_percent = acc so far
RECURSIVE scan_curve(_, _, _, _)
scan_curve(curve, i, current_temp, acc) ==
    IF i > Len(curve) THEN acc
    ELSE IF current_temp >= curve[i].temp
         THEN scan_curve(curve, i + 1, current_temp, curve[i].speed)
         ELSE acc   \* break

target_speed_percent(curve, current_temp) == scan_curve(curve, 1, current_temp, 0)

\* math.ceil(a / b) for b > 0
ceil_div(a, b) == (a + b - 1) \div b

\* faulty variant: int() truncation instead of math.ceil
target_pwm_truncating(speed) == Max(0, Min(255, (speed * 255) \div 100))

\* max(0, min(255, int(math.ceil((speed / 100.0) * 255))))
target_pwm(speed) == Max(0, Min(FAN_MAX_PWM, ceil_div(speed * FAN_MAX_PWM, 100)))

(***************************************************************************)
(* fan_control_service.py: the sysfs writer and the two service methods.   *)
(***************************************************************************)
\* what open(path, 'w') / f.write(value) can do
WriteOutcomes == {"ok", "FileNotFoundError", "PermissionError", "OSError"}

Digit(d) ==
    CASE d = 0 -> "0" [] d = 1 -> "1" [] d = 2 -> "2" [] d = 3 -> "3" [] d = 4 -> "4"
      [] d = 5 -> "5" [] d = 6 -> "6" [] d = 7 -> "7" [] d = 8 -> "8" [] d = 9 -> "9"

\* str(n) for n >= 0: the decimal digits, most significant first
RECURSIVE str(_)
str(n) == IF n < 10 THEN <<Digit(n)>> ELSE Append(str(n \div 10), Digit(n % 10))

\* `not path`: None or the empty string
path_unset(path) == path = None \/ path = Some("")

\* faulty variant: only FileNotFoundError and PermissionError are caught, any
\* other I/O error escapes the helper
write_to_sysfs_named_errors_only(arg, path, value, outcome) ==
    [arg |-> arg, path |-> path, value |-> value,
     opened |-> ~path_unset(path),
     written |-> ~path_unset(path) /\ outcome = "ok",
     raised |-> ~path_unset(path) /\ outcome = "OSError",
     ok |-> ~path_unset(path) /\ outcome = "ok"]

\* _write_to_sysfs(path, value) when the file system answers `outcome`:
\* the record of the call, `opened` telling whether the file was touched,
\* `written` whether the value reached it, `raised` whether an exception left
\* the helper (each except clause ends in the `return False` of l.31) and
\* `ok` the returned bool
write_to_sysfs(arg, path, value, outcome) ==
    [arg |-> arg, path |-> path, value |-> value,
     opened |-> ~path_unset(path),
     written |-> ~path_unset(path) /\ outcome = "ok",
     raised |-> FALSE,
     ok |-> ~path_unset(path) /\ outcome = "ok"]

\* set_fan_manual_mode(config)
set_fan_manual_mode(config, outcome) ==
    write_to_sysfs("enable_path", config.enable_path, <<"1">>, outcome)

\* faulty variants of adjust_fan_speed, each one slip away from the code:
\*   "sticky"          a failed write leaves _last_pwm_written as it was
\*   "records_failed"  a failed write still records the level
\*   "always_writes"   no write suppression
\*   "skips_written"   suppression whenever some level has been written
\*   "no_curve_check"  the early return tests `enabled` only
\*   "forgets_success" a successful write leaves _last_pwm_written as it was
\*   "aborts_on_enable_failure"  no level write after a failed mode-enable write
\*   "trusts_enable"   the level is recorded when the mode-enable write succeeded
\*   "compares_percent"  the speed percentage, not the PWM level, is compared
\*                     with _last_pwm_written
adjust_mutant(kind, last, current_temp, config, o_enable, o_control) ==
    IF ~config.enabled \/ (kind # "no_curve_check" /\ config.curve = <<>>)
    THEN [last |-> last, pwm |-> None, log |-> <<>>]
    ELSE LET pwm == target_pwm(target_speed_percent(config.curve, current_temp))
             w_enable == set_fan_manual_mode(config, o_enable)
             w_control == write_to_sysfs("control_path", config.control_path,
                                         str(pwm), o_control)
             writes == CASE kind = "always_writes" -> TRUE
                         [] kind = "compares_percent" ->
                               Some(target_speed_percent(config.curve, current_temp)) # last
                         [] kind = "skips_written" -> last = None
                         [] OTHER -> Some(pwm) # last
             failed == CASE kind = "sticky" -> last
                         [] kind = "records_failed" -> Some(pwm)
                         [] OTHER -> None
             succeeded == IF kind = "forgets_success" THEN last ELSE Some(pwm)
         IN  IF writes /\ kind = "aborts_on_enable_failure" /\ ~w_enable.ok
             THEN [last |-> last, pwm |-> Some(pwm), log |-> <<w_enable>>]
             ELSE IF writes /\ kind = "trusts_enable"
             THEN [last |-> IF w_enable.ok THEN Some(pwm) ELSE None,
                   pwm |-> Some(pwm),
                   log |-> <<w_enable, w_control>>]
             ELSE IF writes
             THEN [last |-> IF w_control.ok THEN succeeded ELSE failed,
                   pwm |-> Some(pwm),
                   log |-> <<w_enable, w_control>>]
             ELSE [last |-> last, pwm |-> Some(pwm), log |-> <<>>]

adjust_fan_speed_forgets_success(last, current_temp, config, o_enable, o_control) ==
    adjust_mutant("forgets_success", last, current_temp, config, o_enable, o_control)

adjust_fan_speed_aborts_on_enable_failure(last, current_temp, config, o_enable, o_control) ==
    adjust_mutant("aborts_on_enable_failure", last, current_temp, config, o_enable,
                  o_control)

adjust_fan_speed_compares_percent(last, current_temp, config, o_enable, o_control) ==
    adjust_mutant("compares_percent", last, current_temp, config, o_enable, o_control)

adjust_fan_speed_trusts_enable(last, current_temp, config, o_enable, o_control) ==
    adjust_mutant("trusts_enable", last, current_temp, config, o_enable, o_control)

adjust_fan_speed_sticky(last, current_temp, config, o_enable, o_control) ==
    adjust_mutant("sticky", last, current_temp, config, o_enable, o_control)

adjust_fan_speed_records_failed(last, current_temp, config, o_enable, o_control) ==
    adjust_mutant("records_failed", last, current_temp, config, o_enable, o_control)

adjust_fan_speed_always_writes(last, current_temp, config, o_enable, o_control) ==
    adjust_mutant("always_writes", last, current_temp, config, o_enable, o_control)

adjust_fan_speed_skips_written(last, current_temp, config, o_enable, o_control) ==
    adjust_mutant("skips_written", last, current_temp, config, o_enable, o_control)

adjust_fan_speed_no_curve_check(last, current_temp, config, o_enable, o_control) ==
    adjust_mutant("no_curve_check", last, current_temp, config, o_enable, o_control)

\* adjust_fan_speed(current_temp, config) run with _last_pwm_written = last:
\* the new _last_pwm_written, the computed PWM (None on the early return)
\* and the _write_to_sysfs calls made, in order
adjust_fan_speed(last, current_temp, config, o_enable, o_control) ==
    IF ~config.enabled \/ config.curve = <<>>
    THEN [last |-> last, pwm |-> None, log |-> <<>>]
    ELSE LET pwm == target_pwm(target_speed_percent(config.curve, current_temp))
             w_enable == set_fan_manual_mode(config, o_enable)
             w_control == write_to_sysfs("control_path", config.control_path,
                                         str(pwm), o_control)
         IN  IF Some(pwm) # last
             THEN [last |-> IF w_control.ok THEN Some(pwm) ELSE None,
                   pwm |-> Some(pwm),
                   log |-> <<w_enable, w_control>>]
             ELSE [last |-> last, pwm |-> Some(pwm), log |-> <<>>]


(***************************************************************************)
(* services/metrics_service.py: get_system_metrics.  What the host answers *)
(* to each of the five reads is the input `env`.                           *)
(***************************************************************************)
METRICS_FAN_MAX_PWM == 255   \* metrics_service._FAN_MAX_PWM = 255.0

\* what psutil reports for a signal it can read
PsutilValues ==
    [cpu_percent |-> 15, memory_percent |-> 45, disk_usage_percent |-> 60,
     cpu_temp_celsius |-> 55]

Whitespace == {" ", "\n"}
Digits == {"0", "1", "2", "3", "4", "5", "6", "7", "8", "9"}

DigitValue(ch) ==
    CASE ch = "0" -> 0 [] ch = "1" -> 1 [] ch = "2" -> 2 [] ch = "3" -> 3 [] ch = "4" -> 4
      [] ch = "5" -> 5 [] ch = "6" -> 6 [] ch = "7" -> 7 [] ch = "8" -> 8 [] ch = "9" -> 9

\* str.strip(): leading and trailing whitespace removed
RECURSIVE strip(_)
strip(text) ==
    IF text = <<>> THEN <<>>
    ELSE IF Head(text) \in Whitespace THEN strip(Tail(text))
    ELSE IF text[Len(text)] \in Whitespace THEN strip(SubSeq(text, 1, Len(text) - 1))
    ELSE text

\* the value of a non-empty string of decimal digits
RECURSIVE digits_value(_)
digits_value(text) ==
    IF Len(text) = 1 THEN DigitValue(text[1])
    ELSE 10 * digits_value(SubSeq(text, 1, Len(text) - 1)) + DigitValue(text[Len(text)])

\* int(text): None for the ValueError of a text that is not an optional sign
\* followed by decimal digits
int(text) ==
    LET signed == text # <<>> /\ Head(text) \in {"-", "+"}
        body == IF signed THEN Tail(text) ELSE text
    IN  IF body = <<>> \/ \E i \in 1..Len(body) : body[i] \notin Digits THEN None
        ELSE IF signed /\ Head(text) = "-" THEN Some(0 - digits_value(body))
        ELSE Some(digits_value(body))

\* max(0.0, min(100.0, (pwm_value / 255.0) * 100.0)) as an exact fraction
fan_speed_percent(pwm_value) ==
    [num |-> Max(0, Min(100 * METRICS_FAN_MAX_PWM, pwm_value * 100)),
     den |-> METRICS_FAN_MAX_PWM]

\* faulty variant: the temperature block has no try/except, so an error of
\* psutil.sensors_temperatures() leaves the function and the fan is not read
get_system_metrics_temp_unguarded(env) ==
    [raised |-> env.temp = "raises",
     metrics |->
        [cpu_percent |-> IF env.cpu = "ok" THEN Some(PsutilValues.cpu_percent) ELSE None,
         memory_percent |-> IF env.memory = "ok" THEN Some(PsutilValues.memory_percent)
                            ELSE None,
         disk_usage_percent |-> IF env.disk = "ok"
                                THEN Some(PsutilValues.disk_usage_percent) ELSE None,
         cpu_temp_celsius |-> IF env.temp = "ok" THEN Some(PsutilValues.cpu_temp_celsius)
                              ELSE None,
         fan_speed_percent |->
            IF env.temp # "raises" /\ env.fan.status = "ok"
               /\ int(strip(env.fan.text)) # None
            THEN Some(fan_speed_percent(int(strip(env.fan.text))[1]))
            ELSE None]]

\* get_system_metrics(): every signal starts as None (l.15-21) and is set in
\* a try block of its own (l.22-79); `raised` tells whether an exception
\* left the function
get_system_metrics(env) ==
    [raised |-> FALSE,
     metrics |->
        [cpu_percent |-> IF env.cpu = "ok" THEN Some(PsutilValues.cpu_percent) ELSE None,
         memory_percent |-> IF env.memory = "ok" THEN Some(PsutilValues.memory_percent)
                            ELSE None,
         disk_usage_percent |-> IF env.disk = "ok"
                                THEN Some(PsutilValues.disk_usage_percent) ELSE None,
         \* "no_api": psutil has no sensors_temperatures; "no_sensor": no known
         \* key, or an empty list under it
         cpu_temp_celsius |-> IF env.temp = "ok" THEN Some(PsutilValues.cpu_temp_celsius)
                              ELSE None,
         fan_speed_percent |->
            IF env.fan.status = "ok" /\ int(strip(env.fan.text)) # None
            THEN Some(fan_speed_percent(int(strip(env.fan.text))[1]))
            ELSE None]]

(***************************************************************************)
(* models.py, tasks/metrics_collector.py, repositories.py, api/routes.py:  *)
(* the `metrics` table, the write into it and the two queries.  Timestamps *)
(* are integers: all of one time zone, totally ordered.                    *)
(***************************************************************************)
LIMIT_DEFAULT == 100    \* Query(100, ...)
LIMIT_MAX == 1000       \* Query(..., gt=0, le=1000)

\* what collect_and_store_metrics logs: l.29, l.32, or nothing when an
\* Exception leaves it
CollectorLog(outcome) ==
    CASE outcome = "stored" -> "Stored new metric record"
      [] outcome = "store_failed" -> "Failed to store metrics"
      [] OTHER -> ""

\* faulty variant: the failed transaction is neither rolled back nor
\* logged, and the pending row reaches the table with the next commit
collect_and_store_metrics_without_rollback(table, env, now, outcome) ==
    LET collected_data == get_system_metrics(env).metrics
        metric == [id |-> Len(table) + 1,
                   timestamp |-> now,
                   cpu_percent |-> collected_data.cpu_percent,
                   memory_percent |-> collected_data.memory_percent,
                   disk_usage_percent |-> collected_data.disk_usage_percent,
                   cpu_temp_celsius |-> None,
                   fan_speed_percent |-> None]
    IN  [table |-> IF outcome \in {"stored", "store_failed"} THEN Append(table, metric)
                   ELSE table,
         logs |-> IF outcome = "stored" THEN CollectorLog(outcome) ELSE ""]

\* collect_and_store_metrics(session) with the database clock at `now`:
\* the table afterwards and the message logged.  The Metric is built from
\* three of the five signals (l.17-22); the other columns stay NULL.  A
\* failed add or commit is rolled back and logged (l.30-32)
collect_and_store_metrics(table, env, now, outcome) ==
    LET collected_data == get_system_metrics(env).metrics
        metric == [id |-> Len(table) + 1,
                   timestamp |-> now,
                   cpu_percent |-> collected_data.cpu_percent,
                   memory_percent |-> collected_data.memory_percent,
                   disk_usage_percent |-> collected_data.disk_usage_percent,
                   cpu_temp_celsius |-> None,
                   fan_speed_percent |-> None]
    IN  [table |-> IF outcome = "stored" THEN Append(table, metric) ELSE table,
         logs |-> CollectorLog(outcome)]

\* the indices of the rows with start_time <= timestamp <= end_time
rows_in_range(table, start_time, end_time) ==
    {i \in 1..Len(table) :
        table[i].timestamp >= start_time /\ table[i].timestamp <= end_time}

\* ORDER BY timestamp ASC over the rows I: rows of equal timestamp come in
\* an order the database chooses
ascending_orders(table, I) ==
    {p \in Perms(I) :
        \A i, j \in 1..Len(p) : i < j => table[p[i]].timestamp <= table[p[j]].timestamp}

\* faulty variant: the upper bound of the range is exclusive
get_range_exclusive_end(table, start_time, end_time, limit) ==
    LET hits == {i \in 1..Len(table) :
                    table[i].timestamp >= start_time /\ table[i].timestamp < end_time}
    IN  {[k \in 1..Min(limit, Len(p)) |-> table[p[k]]] : p \in ascending_orders(table, hits)}

\* MetricRepository.get_range: the lists the statement can return
get_range(table, start_time, end_time, limit) ==
    {[k \in 1..Min(limit, Len(p)) |-> table[p[k]]] :
        p \in ascending_orders(table, rows_in_range(table, start_time, end_time))}

\* faulty variant: ascending order, so the oldest row is returned
get_latest_oldest(table) ==
    IF table = <<>> THEN {None}
    ELSE {Some(table[i]) : i \in {i \in 1..Len(table) :
             \A j \in 1..Len(table) : table[j].timestamp >= table[i].timestamp}}

\* MetricRepository.get_latest: ORDER BY timestamp DESC LIMIT 1, then
\* first(): None on an empty table, else a row of the greatest timestamp
get_latest(table) ==
    IF table = <<>> THEN {None}
    ELSE {Some(table[i]) : i \in {i \in 1..Len(table) :
             \A j \in 1..Len(table) : table[j].timestamp <= table[i].timestamp}}

\* schemas.MetricRead built from a row (from_attributes)
MetricRead(row) ==
    [id |-> row.id, timestamp |-> row.timestamp, cpu_percent |-> row.cpu_percent,
     memory_percent |-> row.memory_percent,
     disk_usage_percent |-> row.disk_usage_percent,
     cpu_temp_celsius |-> row.cpu_temp_celsius,
     fan_speed_percent |-> row.fan_speed_percent]

\* an answer of the HTTP API; `body` is a list (null is the empty list and a
\* single object a list of one for /metrics/latest)
HttpResponse(status, detail, body) == [status |-> status, detail |-> detail, body |-> body]

\* faulty variant: equal timestamps pass the check
get_metrics_in_range_allows_equal(table, start_time, end_time, limit_param) ==
    LET limit == IF limit_param = None THEN LIMIT_DEFAULT ELSE limit_param[1]
    IN  IF ~(limit > 0 /\ limit <= LIMIT_MAX)
        THEN {HttpResponse(422, "validation error", <<>>)}
        ELSE IF start_time > end_time
        THEN {HttpResponse(400, "Start time must be before end time.", <<>>)}
        ELSE {HttpResponse(200, "", [k \in 1..Len(rows) |-> MetricRead(rows[k])]) :
                 rows \in get_range(table, start_time, end_time, limit)}

\* GET /metrics/range: the answers the endpoint can give.  FastAPI checks
\* the limit against Query(100, gt=0, le=1000) before the handler runs
get_metrics_in_range(table, start_time, end_time, limit_param) ==
    LET limit == IF limit_param = None THEN LIMIT_DEFAULT ELSE limit_param[1]
    IN  IF ~(limit > 0 /\ limit <= LIMIT_MAX)
        THEN {HttpResponse(422, "validation error", <<>>)}
        ELSE IF start_time >= end_time
        THEN {HttpResponse(400, "Start time must be before end time.", <<>>)}
        ELSE {HttpResponse(200, "", [k \in 1..Len(rows) |-> MetricRead(rows[k])]) :
                 rows \in get_range(table, start_time, end_time, limit)}

\* GET /metrics/latest
get_latest_metric(table) ==
    {HttpResponse(200, "", IF latest_metric = None THEN None
                           ELSE Some(MetricRead(latest_metric[1]))) :
        latest_metric \in get_latest(table)}


(***************************************************************************)
(* SpecCurve: the pure computations on bounded inputs.                     *)
(***************************************************************************)
Tasks == {"metrics", "fan"}

NoTask ==
    [pc |-> "absent", result |-> "none", cancel_req |-> FALSE, errs |-> "never",
     met |-> "none"]

\* the lifespan has not been entered
LifeIdle ==
    /\ sup_pc = "init"
    /\ background_tasks = {}
    /\ task = [t \in Tasks |-> NoTask]
    /\ todo = <<>>
    /\ waited = 0
    /\ elapsed = 0
    /\ logged = {}
    /\ pool_disposed = FALSE

\* no request has been answered
NoResponse == [op |-> "none", request |-> <<>>, status |-> 0, detail |-> "", body |-> <<>>]

\* the table is empty and nothing has been asked
ApiIdle ==
    /\ metrics_table = <<>>
    /\ response = NoResponse

EvIdle ==
    [op |-> "none", curve |-> <<>>, accepted |-> FALSE, temp |-> 0, speed |-> 0, out |-> 0]

NoFanControl ==
    [present |-> FALSE, enabled |-> FALSE, control_path |-> None,
     enable_path |-> None, curve |-> <<>>]

NoSettings == [loaded |-> FALSE, metrics_enabled |-> FALSE, fan_control |-> NoFanControl]

\* what the next call needs to know of the call before it (kept by SpecFan,
\* where a caller makes call after call; Spec records NoSummary)
NoSummary ==
    [op |-> "none", active |-> FALSE, temp |-> 0, pwm |-> None, ctl |-> "none",
     prev_last |-> None]

NoCall ==
    [op |-> "none", config |-> NoFanControl, temp |-> 0, pwm |-> None, log |-> <<>>,
     prev_last |-> None, before |-> NoSummary]

InitCurve ==
    /\ settings = NoSettings
    /\ last_pwm_written = None
    /\ call = NoCall
    /\ last_ctl_write = None
    /\ ev = EvIdle
    /\ ApiIdle
    /\ LifeIdle

\* FanControlSettings(curve=raw): the validator accepts or rejects the curve
LoadCurve(raw) ==
    /\ ev.op = "none"
    /\ ev' = [EvIdle EXCEPT !.op = "check_curve_sorted", !.curve = raw,
                            !.accepted = check_curve_sorted(raw)]
    /\ UNCHANGED <<settings, last_pwm_written, call, last_ctl_write, apiVars, lifeVars>>

\* the curve scan on the curve last accepted by the validator
Evaluate(t) ==
    /\ ev.accepted
    /\ ev' = [ev EXCEPT !.op = "evaluate", !.temp = t, !.speed = 0,
                        !.out = target_speed_percent(ev.curve, t)]
    /\ UNCHANGED <<settings, last_pwm_written, call, last_ctl_write, apiVars, lifeVars>>

\* the PWM conversion of a target speed
ToPwm(s) ==
    /\ ev.op = "none"
    /\ ev' = [EvIdle EXCEPT !.op = "target_pwm", !.speed = s, !.out = target_pwm(s)]
    /\ UNCHANGED <<settings, last_pwm_written, call, last_ctl_write, apiVars, lifeVars>>

NextCurve ==
    \/ \E raw \in RawCurves : LoadCurve(raw)
    \/ \E t \in ProbeTemps : Evaluate(t)
    \/ \E s \in 0..MaxSpeedPercent : ToPwm(s)

SpecCurve == InitCurve /\ [][NextCurve]_vars

(***************************************************************************)
(* SpecFan: the FanControlService singleton of fan_control_service.py:77,  *)
(* called with arbitrary temperatures while the file system answers each   *)
(* write arbitrarily.  The configuration is loaded once; a caller may pass *)
(* it as loaded, with control switched off, or with the curve removed.     *)
(***************************************************************************)
MaxFanCurveLen == 2

FanCurveTemps == {40, 60}
FanCurveSpeeds == {50, 100}   \* speed 0 is what a reading below the curve gets
FanProbeTemps == {39, 40, 61}
ControlPaths == {None, Some(""), Some("/sys/class/hwmon/hwmon0/pwm1")}
EnablePaths == {None, Some("/sys/class/hwmon/hwmon0/pwm1_enable")}

\* the curves FanControlSettings accepts, over the given temperatures
LoadableCurves(temps, n) ==
    {c \in UNION {[1..k -> [temp : temps, speed : FanCurveSpeeds]] : k \in 0..n} :
        check_curve_sorted(c)}

FanControlSettings ==
    [present : {TRUE}, enabled : BOOLEAN, control_path : ControlPaths,
     enable_path : EnablePaths, curve : LoadableCurves(FanCurveTemps, MaxFanCurveLen)]

CallConfigs(fc) == {fc, [fc EXCEPT !.enabled = FALSE], [fc EXCEPT !.curve = <<>>]}

\* adjust_fan_speed gets past its early return with this config
Active(config) == config.enabled /\ config.curve # <<>>

ControlWrites(log) == {i \in 1..Len(log) : log[i].arg = "control_path"}
EnableWrites(log) == {i \in 1..Len(log) : log[i].arg = "enable_path"}

\* the fate of the control-path write of a call
CtlStatus(log) ==
    IF ControlWrites(log) = {} THEN "none"
    ELSE IF \A i \in ControlWrites(log) : log[i].ok THEN "ok" ELSE "failed"

Summary(c) ==
    [op |-> c.op, active |-> Active(c.config), temp |-> c.temp, pwm |-> c.pwm,
     ctl |-> CtlStatus(c.log), prev_last |-> c.prev_last]

InitFan ==
    /\ settings \in [loaded : {TRUE}, metrics_enabled : {TRUE},
                     fan_control : FanControlSettings]
    /\ last_pwm_written = None      \* FanControlService.__init__
    /\ call = NoCall
    /\ last_ctl_write = None
    /\ ev = EvIdle
    /\ ApiIdle
    /\ LifeIdle

\* faulty variant: adjust_fan_speed is suspended between reading
\* _last_pwm_written and acting on it, so it acts on the value the call
\* before it read
CallAdjust_stale_read(current_temp, config, o_enable, o_control, before) ==
    LET r == adjust_fan_speed(call.prev_last, current_temp, config, o_enable, o_control)
    IN  /\ last_pwm_written' = r.last
        /\ call' = [op |-> "adjust_fan_speed", config |-> config, temp |-> current_temp,
                    pwm |-> r.pwm, log |-> r.log, prev_last |-> call.prev_last,
                    before |-> before]
        /\ UNCHANGED last_ctl_write

\* the effect of fan_control_service.adjust_fan_speed(current_temp, config)
\* on the service and on the record of its last call
CallAdjust(current_temp, config, o_enable, o_control, before) ==
    LET r == adjust_fan_speed(last_pwm_written, current_temp, config, o_enable, o_control)
    IN  /\ last_pwm_written' = r.last
        /\ call' = [op |-> "adjust_fan_speed", config |-> config, temp |-> current_temp,
                    pwm |-> r.pwm, log |-> r.log, prev_last |-> last_pwm_written,
                    before |-> before]
        /\ last_ctl_write' =
              IF ControlWrites(r.log) = {} THEN last_ctl_write
              ELSE LET w == r.log[CHOOSE i \in ControlWrites(r.log) :
                                      \A j \in ControlWrites(r.log) : j <= i]
                   IN  Some([level |-> digits_value(w.value), ok |-> w.ok])

\* the effect of fan_control_service.set_fan_manual_mode(config)
CallSetManual(config, o_enable, before) ==
    /\ call' = [op |-> "set_fan_manual_mode", config |-> config, temp |-> 0,
                pwm |-> None, log |-> <<set_fan_manual_mode(config, o_enable)>>,
                prev_last |-> last_pwm_written, before |-> before]
    /\ UNCHANGED <<last_pwm_written, last_ctl_write>>

AdjustFanSpeed(current_temp, config, o_enable, o_control) ==
    /\ CallAdjust(current_temp, config, o_enable, o_control, Summary(call))
    /\ UNCHANGED <<settings, ev, apiVars, lifeVars>>

SetFanManualMode(config, o_enable) ==
    /\ CallSetManual(config, o_enable, Summary(call))
    /\ UNCHANGED <<settings, ev, apiVars, lifeVars>>

\* the answers the file system can give at a path: an unset path is never
\* opened, so nothing is asked of it
OutcomesAt(path) == IF path_unset(path) THEN {"ok"} ELSE WriteOutcomes

\* the answers that matter to adjust_fan_speed(_, config): it asks nothing
\* of the file system when it returns early
AskedAt(config, path) == IF Active(config) THEN OutcomesAt(path) ELSE {"ok"}

NextFan ==
    \/ \E t \in FanProbeTemps, c \in CallConfigs(settings.fan_control) :
          \E o1 \in AskedAt(c, c.enable_path), o2 \in AskedAt(c, c.control_path) :
             AdjustFanSpeed(t, c, o1, o2)
    \/ \E o1 \in OutcomesAt(settings.fan_control.enable_path) :
          SetFanManualMode(settings.fan_control, o1)

SpecFan == InitFan /\ [][NextFan]_vars


(***************************************************************************)
(* SpecReader: MetricsService.get_system_metrics() on a host that answers  *)
(* each of the five reads in any of the ways the code distinguishes.       *)
(***************************************************************************)
\* the contents of the fan's cur_state file
FanTexts ==
    { <<"0", "\n">>, <<"1", "2", "8", "\n">>, <<"3", "0", "0">>, <<"-", "1">>,
      <<"o", "n">>, <<"\n">> }

FanReads ==
    {[status |-> "ok", text |-> t] : t \in FanTexts} \cup
    {[status |-> e, text |-> <<>>] : e \in {"FileNotFoundError", "PermissionError", "OSError"}}

HostEnvs ==
    [cpu : {"ok", "raises"}, memory : {"ok", "raises"}, disk : {"ok", "raises"},
     temp : {"ok", "raises", "no_api", "no_sensor"}, fan : FanReads]

\* a host on which every signal can be read
HostOk ==
    [cpu |-> "ok", memory |-> "ok", disk |-> "ok", temp |-> "ok",
     fan |-> [status |-> "ok", text |-> <<"1", "2", "8", "\n">>]]

InitReader == InitCurve

\* metrics_service.get_system_metrics() on a host answering `env`
ReadSample(env) ==
    /\ response' = [op |-> "get_system_metrics", request |-> env, status |-> 0,
                    detail |-> "", body |-> get_system_metrics(env)]
    /\ UNCHANGED <<settings, last_pwm_written, call, last_ctl_write, ev, metrics_table, lifeVars>>

NextReader == \E env \in HostEnvs : ReadSample(env)

SpecReader == InitReader /\ [][NextReader]_vars

(***************************************************************************)
(* SpecApi: the `metrics` table written by the collector's unit of work    *)
(* and read by the two query endpoints of api/routes.py.  `response` is    *)
(* the answer to the last request for as long as the table stays as it was *)
(* when the request was answered.                                          *)
(***************************************************************************)
MaxRecords == 3

Timestamps == {10, 20}
QueryTimes == {5, 10, 20}
LimitParams == {None, Some(0), Some(1), Some(2), Some(1000), Some(1001)}
StoreOutcomes == {"stored", "store_failed"}
ApiEnvs == {HostOk, [HostOk EXCEPT !.cpu = "raises"]}

InitApi == InitCurve

\* one unit of work of the collector (metrics_collector.py l.45-46) with the
\* database clock at `now`
CollectAndStore(env, now, outcome) ==
    /\ Len(metrics_table) < MaxRecords
    /\ metrics_table' = collect_and_store_metrics(metrics_table, env, now, outcome).table
    /\ response' = IF outcome = "stored" THEN NoResponse ELSE response
    /\ UNCHANGED <<settings, last_pwm_written, call, last_ctl_write, ev, lifeVars>>

\* GET /metrics/latest
GetLatestMetric ==
    /\ \E r \in get_latest_metric(metrics_table) :
          response' = [op |-> "get_latest_metric", request |-> <<>>, status |-> r.status,
                       detail |-> r.detail, body |-> r.body]
    /\ UNCHANGED <<settings, last_pwm_written, call, last_ctl_write, ev, metrics_table, lifeVars>>

\* GET /metrics/range?start_time=..&end_time=..[&limit=..]
GetMetricsInRange(start_time, end_time, limit_param) ==
    /\ \E r \in get_metrics_in_range(metrics_table, start_time, end_time, limit_param) :
          response' = [op |-> "get_metrics_in_range",
                       request |-> [start_time |-> start_time, end_time |-> end_time,
                                    limit |-> limit_param],
                       status |-> r.status, detail |-> r.detail, body |-> r.body]
    /\ UNCHANGED <<settings, last_pwm_written, call, last_ctl_write, ev, metrics_table, lifeVars>>

NextApi ==
    \/ \E env \in ApiEnvs, now \in Timestamps, outcome \in StoreOutcomes :
          CollectAndStore(env, now, outcome)
    \/ GetLatestMetric
    \/ \E start_time \in QueryTimes, end_time \in QueryTimes, limit_param \in LimitParams :
          GetMetricsInRange(start_time, end_time, limit_param)

SpecApi == InitApi /\ [][NextApi]_vars


(***************************************************************************)
(* Spec: the application.  main.py lifespan() starts the background tasks, *)
(* serves, and on shutdown cancels and awaits them and disposes the        *)
(* engine; tasks/fan_control_task.py and tasks/metrics_collector.py are    *)
(* the two periodic loops.                                                 *)
(*                                                                         *)
(* The tasks are asyncio tasks on one event loop.  A task runs from one    *)
(* await to the next without interruption, and a cancellation requested    *)
(* with task.cancel() is thrown into the coroutine the next time it is     *)
(* resumed.  The fan loop's only await is its sleep.  The metrics loop     *)
(* also awaits inside its unit of work (the session and the repository);   *)
(* how long those calls take to unwind when cancelled is not decided by    *)
(* this repository, so it is left open: at once, after any time, or never. *)
(*                                                                         *)
(* Time is counted in seconds and only while lifespan() is suspended in    *)
(* an await that nothing can complete at once.                             *)
(***************************************************************************)
PER_TASK_TIMEOUT == 5
Margin == 1
MaxElapsed == PER_TASK_TIMEOUT + Margin + 1

LifeCurves == {<<>>, ExampleCurve}
\* what one pass of the fan loop meets: get_system_metrics() gives no CPU
\* temperature, or one, or the unit of work raises an Exception
LifeReadings ==
    {[raises |-> TRUE, cpu_temp |-> None]} \cup
    {[raises |-> FALSE, cpu_temp |-> c] : c \in {None, Some(39), Some(61)}}
MetricsOutcomes == {"stored", "store_failed", "raised"}

\* the database clock in Spec: it advances from one stored row to the next
LifeNow(table) == 10 * (Len(table) + 1)

\* the answers of the file system tried in Spec
LifeOutcomesAt(path) == IF path_unset(path) THEN {"ok"} ELSE {"ok", "PermissionError"}

LifeFanControl ==
    {NoFanControl} \cup
    [present : {TRUE}, enabled : BOOLEAN,
     control_path : {None, Some("/sys/class/hwmon/hwmon0/pwm1")},
     enable_path : EnablePaths, curve : LifeCurves]

Init ==
    /\ settings \in [loaded : {TRUE}, metrics_enabled : BOOLEAN,
                     fan_control : LifeFanControl]
    /\ last_pwm_written = None
    /\ call = NoCall
    /\ last_ctl_write = None
    /\ ev = EvIdle
    /\ ApiIdle
    /\ LifeIdle

fanVars == <<last_pwm_written, call, last_ctl_write>>
supVars == <<sup_pc, todo, waited, elapsed, pool_disposed>>

\* faulty variant: every task is started whatever its flag says
enabled_in_settings_ignores_flag(t) == TRUE

\* the conditions of main.py l.41 and l.51
enabled_in_settings(t) ==
    IF t = "metrics" THEN settings.metrics_enabled
    ELSE settings.fan_control.present /\ settings.fan_control.enabled

Done(t) == task[t].pc = "done"

\* faulty variant: the task has no done callback, so its handle stays in the
\* set after the coroutine has ended
Finish_keeps_handle(t, result) ==
    /\ task' = [task EXCEPT ![t].pc = "done", ![t].result = result]
    /\ UNCHANGED background_tasks

\* the task's coroutine ends; its done callback discards it from the set
Finish(t, result) ==
    /\ task' = [task EXCEPT ![t].pc = "done", ![t].result = result]
    /\ background_tasks' = background_tasks \ {t}

\* faulty variant: the loop has no try/except around its unit of work
loop_without_except(raised) ==
    IF raised THEN [pc |-> "done", result |-> "exception", logs |-> FALSE]
    ELSE [pc |-> "sleep", result |-> "none", logs |-> FALSE]

\* run_fan_control_task l.29-45: where the loop stands after a unit of work
\* that raised an Exception or did not
fan_loop_after(raised) ==
    IF raised THEN [pc |-> "sleep", result |-> "none", logs |-> TRUE]
    ELSE [pc |-> "sleep", result |-> "none", logs |-> FALSE]

\* faulty variant: the unit of work is not inside a `while True`, so the
\* coroutine returns after a unit of work that raised nothing
loop_without_while(raised) ==
    IF raised THEN [pc |-> "sleep", result |-> "none", logs |-> TRUE]
    ELSE [pc |-> "done", result |-> "returned", logs |-> FALSE]

\* run_metrics_collector_task l.44-51, likewise
metrics_loop_after(raised) ==
    IF raised THEN [pc |-> "sleep", result |-> "none", logs |-> TRUE]
    ELSE [pc |-> "sleep", result |-> "none", logs |-> FALSE]

\* the bookkeeping of a finished unit of work of task t
AfterIteration(t, nxt, raised, met) ==
    /\ task' = [task EXCEPT ![t].pc = nxt.pc, ![t].result = nxt.result,
                            ![t].met = met,
                            ![t].errs = IF raised THEN "last"
                                        ELSE IF @ = "never" THEN "never" ELSE "earlier"]
    /\ background_tasks' = IF nxt.pc = "done" THEN background_tasks \ {t}
                           ELSE background_tasks
    /\ logged' = IF nxt.logs THEN logged \cup {<<"loop_error", t>>} ELSE logged

(***************************************************************************)
(* lifespan(): startup                                                     *)
(***************************************************************************)
Startup ==
    /\ sup_pc = "init"
    /\ LET started == {t \in Tasks : enabled_in_settings(t)}
       IN  /\ background_tasks' = started
           /\ task' = [t \in Tasks |-> IF t \in started
                                       THEN [NoTask EXCEPT !.pc = "created"]
                                       ELSE NoTask]
           /\ logged' = logged \cup {<<"scheduled", t>> : t \in started}
                               \cup {<<"disabled", t>> : t \in Tasks \ started}
    /\ sup_pc' = "serving"
    /\ UNCHANGED <<settings, fanVars, ev, apiVars, todo, waited, elapsed, pool_disposed>>

(***************************************************************************)
(* run_fan_control_task                                                    *)
(***************************************************************************)
\* faulty variant: the task returns when the initial mode-enable write fails
FanStart_gives_up_on_failure(o_enable) ==
    /\ task["fan"].pc = "created" /\ ~task["fan"].cancel_req
    /\ LET fc == settings.fan_control
       IN  IF ~fc.present \/ ~fc.enabled
           THEN /\ Finish("fan", "returned")
                /\ logged' = logged \cup {<<"disabled", "fan">>}
                /\ UNCHANGED fanVars
           ELSE IF path_unset(fc.control_path) \/ path_unset(fc.enable_path)
           THEN /\ Finish("fan", "returned")
                /\ logged' = logged \cup {<<"paths_not_set", "fan">>}
                /\ UNCHANGED fanVars
           ELSE /\ CallSetManual(fc, o_enable, NoSummary)
                /\ IF set_fan_manual_mode(fc, o_enable).ok
                   THEN /\ task' = [task EXCEPT !["fan"].pc = "work"]
                        /\ UNCHANGED <<background_tasks, logged>>
                   ELSE /\ Finish("fan", "returned")
                        /\ UNCHANGED logged
    /\ UNCHANGED <<settings, ev, apiVars, supVars>>

\* the coroutine's first run: the guards of l.11-17, then the initial
\* set_fan_manual_mode of l.26
FanStart(o_enable) ==
    /\ task["fan"].pc = "created" /\ ~task["fan"].cancel_req
    /\ LET fc == settings.fan_control
       IN  IF ~fc.present \/ ~fc.enabled
           THEN /\ Finish("fan", "returned")
                /\ logged' = logged \cup {<<"disabled", "fan">>}
                /\ UNCHANGED fanVars
           ELSE IF path_unset(fc.control_path) \/ path_unset(fc.enable_path)
           THEN /\ Finish("fan", "returned")
                /\ logged' = logged \cup {<<"paths_not_set", "fan">>}
                /\ UNCHANGED fanVars
           ELSE /\ CallSetManual(fc, o_enable, NoSummary)
                /\ task' = [task EXCEPT !["fan"].pc = "work"]
                /\ UNCHANGED <<background_tasks, logged>>
    /\ UNCHANGED <<settings, ev, apiVars, supVars>>

\* what the pass met at l.32-35: an Exception, no CPU temperature, or one
FanMet(reading) ==
    IF reading.raises THEN "raised"
    ELSE IF reading.cpu_temp = None THEN "no_cpu_temp" ELSE "cpu_temp"

\* faulty variant: a missing temperature is passed on as 0 (`cpu_temp or 0`)
\* instead of skipping the adjustment
FanIteration_adjusts_without_temp(reading, o_enable, o_control) ==
    /\ task["fan"].pc = "work" /\ ~task["fan"].cancel_req
    /\ IF reading.raises
       THEN UNCHANGED fanVars
       ELSE CallAdjust(IF reading.cpu_temp = None THEN 0 ELSE reading.cpu_temp[1],
                       settings.fan_control, o_enable, o_control, NoSummary)
    /\ AfterIteration("fan", fan_loop_after(reading.raises), reading.raises,
                      FanMet(reading))
    /\ UNCHANGED <<settings, ev, apiVars, supVars>>

\* one pass of the while loop, l.29-43, up to the sleep of l.45
FanIteration(reading, o_enable, o_control) ==
    /\ task["fan"].pc = "work" /\ ~task["fan"].cancel_req
    /\ IF reading.raises \/ reading.cpu_temp = None
       THEN UNCHANGED fanVars
       ELSE CallAdjust(reading.cpu_temp[1], settings.fan_control, o_enable, o_control,
                       NoSummary)
    /\ AfterIteration("fan", fan_loop_after(reading.raises), reading.raises,
                      FanMet(reading))
    /\ UNCHANGED <<settings, ev, apiVars, supVars>>

(***************************************************************************)
(* run_metrics_collector_task                                              *)
(***************************************************************************)
\* the coroutine's first run: the guard of l.36-38
MetricsStart ==
    /\ task["metrics"].pc = "created" /\ ~task["metrics"].cancel_req
    /\ IF ~settings.metrics_enabled
       THEN /\ Finish("metrics", "returned")
            /\ logged' = logged \cup {<<"disabled", "metrics">>}
       ELSE /\ task' = [task EXCEPT !["metrics"].pc = "work"]
            /\ UNCHANGED <<background_tasks, logged>>
    /\ UNCHANGED <<settings, fanVars, ev, apiVars, supVars>>

\* l.45-46: the session is opened and collect_and_store_metrics awaits the
\* repository
MetricsBegin ==
    /\ task["metrics"].pc = "work" /\ ~task["metrics"].cancel_req
    /\ task' = [task EXCEPT !["metrics"].pc = "db"]
    /\ UNCHANGED <<settings, fanVars, ev, apiVars, supVars, background_tasks, logged>>

\* the unit of work ends: the record is stored, or storing fails and is
\* rolled back and logged inside collect_and_store_metrics (l.30-32), or an
\* Exception escapes to the loop (l.47-49).  `response` keeps what this
\* unit of work met and what it logged
MetricsFinish(outcome) ==
    /\ task["metrics"].pc = "db" /\ ~task["metrics"].cancel_req
    /\ outcome = "stored" => Len(metrics_table) < MaxRecords
    /\ LET r == collect_and_store_metrics(metrics_table, HostOk,
                                          LifeNow(metrics_table), outcome)
       IN  /\ metrics_table' = r.table
           /\ response' = [op |-> "collect_and_store_metrics",
                           request |-> [outcome |-> outcome], status |-> 0,
                           detail |-> r.logs, body |-> <<>>]
    /\ AfterIteration("metrics", metrics_loop_after(outcome = "raised"),
                      outcome = "raised", outcome)
    /\ UNCHANGED <<settings, fanVars, ev, supVars>>

(***************************************************************************)
(* both loops: the sleep and the cancellation                              *)
(***************************************************************************)
\* await asyncio.sleep(interval) returns
SleepDone(t) ==
    /\ task[t].pc = "sleep" /\ ~task[t].cancel_req
    /\ task' = [task EXCEPT ![t].pc = "work"]
    /\ UNCHANGED <<settings, fanVars, ev, apiVars, supVars, background_tasks, logged>>

\* faulty variant: the loop's handler catches BaseException, so the
\* CancelledError is logged like any error and the loop goes on to its sleep
TaskCancelled_swallowed(t) ==
    /\ task[t].cancel_req
    /\ task[t].pc \in {"created", "work", "db", "sleep"}
    /\ task' = [task EXCEPT ![t].pc = "sleep", ![t].cancel_req = FALSE]
    /\ logged' = logged \cup {<<"loop_error", t>>}
    /\ UNCHANGED <<settings, fanVars, ev, apiVars, supVars, background_tasks>>

\* faulty variant: adjust_fan_speed is a coroutine that awaits between its two
\* writes, so a cancellation of the fan task ends it after the mode-enable
\* write and before the level write
TaskCancelled_mid_cycle(t) ==
    /\ task[t].cancel_req
    /\ task[t].pc \in {"created", "work", "db", "sleep"}
    /\ Finish(t, "cancelled")
    /\ IF t = "fan" /\ task[t].pc = "work"
       THEN /\ call' = [op |-> "adjust_fan_speed", config |-> settings.fan_control,
                        temp |-> 61, pwm |-> Some(FAN_MAX_PWM),
                        log |-> <<set_fan_manual_mode(settings.fan_control, "ok")>>,
                        prev_last |-> last_pwm_written, before |-> NoSummary]
            /\ UNCHANGED <<last_pwm_written, last_ctl_write>>
       ELSE UNCHANGED fanVars
    /\ UNCHANGED <<settings, ev, apiVars, supVars, logged>>

\* CancelledError is thrown into the coroutine; no handler of either loop
\* catches it (they catch Exception), so the task ends cancelled
TaskCancelled(t) ==
    /\ task[t].cancel_req
    /\ task[t].pc \in {"created", "work", "db", "sleep"}
    /\ Finish(t, "cancelled")
    /\ UNCHANGED <<settings, fanVars, ev, apiVars, supVars, logged>>

\* a cancellation that takes effect as soon as the event loop runs the task
CancelsAtOnce(t) == task[t].cancel_req /\ task[t].pc \in {"created", "work", "sleep"}

(***************************************************************************)
(* lifespan(): shutdown, l.62-92                                           *)
(***************************************************************************)
\* l.63-65: list(background_tasks), in the set's iteration order
ShutdownBegin(order) ==
    /\ sup_pc = "serving"
    /\ todo' = order
    /\ elapsed' = 0
    /\ sup_pc' = "loop"
    /\ logged' = logged \cup {<<"shutdown", "lifespan">>}
    /\ UNCHANGED <<settings, fanVars, ev, apiVars, background_tasks, task, waited, pool_disposed>>

\* faulty variant: l.67 is missing, the task is awaited without having been
\* cancelled
LoopCancel_without_cancel ==
    /\ sup_pc = "loop" /\ todo # <<>> /\ ~Done(Head(todo))
    /\ waited' = 0
    /\ sup_pc' = "wait_for"
    /\ UNCHANGED <<settings, fanVars, ev, apiVars, background_tasks, task, todo, elapsed,
                   logged, pool_disposed>>

\* l.66-70: the task is not done: cancel it and enter wait_for
LoopCancel ==
    /\ sup_pc = "loop" /\ todo # <<>> /\ ~Done(Head(todo))
    /\ task' = [task EXCEPT ![Head(todo)].cancel_req = TRUE]
    /\ waited' = 0
    /\ sup_pc' = "wait_for"
    /\ UNCHANGED <<settings, fanVars, ev, apiVars, background_tasks, todo, elapsed, logged,
                   pool_disposed>>

\* l.77-83: the task is done already; task.exception() raises CancelledError
\* for a cancelled task
LoopAlreadyDone ==
    /\ sup_pc = "loop" /\ todo # <<>> /\ Done(Head(todo))
    /\ LET t == Head(todo)
       IN  IF task[t].result = "cancelled"
           THEN /\ sup_pc' = "raised"
                /\ UNCHANGED logged
           ELSE /\ sup_pc' = "loop"
                /\ logged' = logged \cup
                      {IF task[t].result = "exception"
                       THEN <<"finished_with_exception", t>>
                       ELSE <<"already_finished", t>>}
    /\ todo' = Tail(todo)
    /\ UNCHANGED <<settings, fanVars, ev, apiVars, background_tasks, task, waited, elapsed,
                   pool_disposed>>

\* asyncio.wait_for(task, timeout=5.0) returns or raises, l.70-76.  When the
\* timeout fires wait_for cancels the task and goes on waiting until the task
\* has ended, then raises TimeoutError if the task ended cancelled.
WaitForReturn ==
    /\ sup_pc = "wait_for" /\ Done(Head(todo))
    /\ LET t == Head(todo)
           r == task[t].result
       IN  logged' = logged \cup
              (CASE r = "cancelled" /\ waited < PER_TASK_TIMEOUT -> {<<"cancelled", t>>}
                 [] r = "cancelled" /\ waited >= PER_TASK_TIMEOUT -> {<<"timeout", t>>}
                 [] r = "exception" -> {<<"cancel_error", t>>}
                 [] OTHER -> {})
    /\ todo' = Tail(todo)
    /\ sup_pc' = "loop"
    /\ UNCHANGED <<settings, fanVars, ev, apiVars, background_tasks, task, waited, elapsed,
                   pool_disposed>>

\* the for loop is over
LoopEnd ==
    /\ sup_pc = "loop" /\ todo = <<>>
    /\ sup_pc' = "gather"
    /\ UNCHANGED <<settings, fanVars, ev, apiVars, background_tasks, task, todo, waited, elapsed,
                   logged, pool_disposed>>

\* l.86-88: gather(*background_tasks) returns once each of them is done
AwaitRemaining ==
    /\ sup_pc = "gather"
    /\ \A t \in background_tasks : Done(t)
    /\ logged' = IF background_tasks # {} THEN logged \cup {<<"all_awaited", "lifespan">>}
                 ELSE logged
    /\ sup_pc' = "dispose"
    /\ UNCHANGED <<settings, fanVars, ev, apiVars, background_tasks, task, todo, waited, elapsed,
                   pool_disposed>>

\* faulty variant: the pool is released before the tasks are cancelled
Dispose_before_tasks ==
    /\ sup_pc = "loop" /\ ~pool_disposed
    /\ pool_disposed' = TRUE
    /\ logged' = logged \cup {<<"pool_closed", "lifespan">>}
    /\ UNCHANGED <<settings, fanVars, ev, apiVars, sup_pc, background_tasks, task, todo, waited,
                   elapsed>>

\* l.90-92: engine.dispose()
Dispose ==
    /\ sup_pc = "dispose"
    /\ pool_disposed' = TRUE
    /\ logged' = logged \cup {<<"pool_closed", "lifespan">>}
    /\ sup_pc' = "done"
    /\ UNCHANGED <<settings, fanVars, ev, apiVars, background_tasks, task, todo, waited, elapsed>>

\* a second passes while lifespan() is suspended in wait_for or gather on a
\* task that is not done and no cancellation is about to take effect
Tick ==
    /\ \/ sup_pc = "wait_for" /\ ~Done(Head(todo))
       \/ sup_pc = "gather" /\ \E t \in background_tasks : ~Done(t)
    /\ \A t \in Tasks : ~CancelsAtOnce(t)
    /\ elapsed < MaxElapsed
    /\ elapsed' = elapsed + 1
    /\ waited' = IF sup_pc = "wait_for" THEN Min(waited + 1, PER_TASK_TIMEOUT) ELSE waited
    /\ UNCHANGED <<settings, fanVars, ev, apiVars, sup_pc, background_tasks, task, todo, logged,
                   pool_disposed>>

Next ==
    \/ Startup
    \/ \E o1 \in LifeOutcomesAt(settings.fan_control.enable_path) : FanStart(o1)
    \/ \E reading \in LifeReadings :
          \E o1 \in LifeOutcomesAt(settings.fan_control.enable_path),
             o2 \in LifeOutcomesAt(settings.fan_control.control_path) :
             FanIteration(reading, o1, o2)
    \/ MetricsStart
    \/ MetricsBegin
    \/ \E outcome \in MetricsOutcomes : MetricsFinish(outcome)
    \/ \E t \in Tasks : SleepDone(t)
    \/ \E t \in Tasks : TaskCancelled(t)
    \/ \E order \in Perms(background_tasks) : ShutdownBegin(order)
    \/ LoopCancel
    \/ LoopAlreadyDone
    \/ WaitForReturn
    \/ LoopEnd
    \/ AwaitRemaining
    \/ Dispose
    \/ Tick

Spec == Init /\ [][Next]_vars

\* The event loop runs every coroutine that is ready, so no step of
\* lifespan()'s shutdown that can be taken is put off for ever; and each task
\* honours a cancellation at its next suspension point: the CancelledError
\* thrown into it ends it.  Nothing obliges a shutdown to be requested, a
\* unit of work to end or the clock to advance.
Fairness ==
    /\ \A t \in Tasks : WF_vars(TaskCancelled(t))
    /\ WF_vars(LoopCancel)
    /\ WF_vars(LoopAlreadyDone)
    /\ WF_vars(WaitForReturn)
    /\ WF_vars(LoopEnd)
    /\ WF_vars(AwaitRemaining)
    /\ WF_vars(Dispose)

SpecLive == Init /\ [][Next]_vars /\ Fairness

(***************************************************************************)
(* Properties of the lifespan and the loops (specification Spec).          *)
(***************************************************************************)
ShuttingDown == sup_pc \in {"loop", "wait_for", "gather", "dispose"}

\* C1: when shutdown is requested while a background task ignores
\* cancellation for longer than the grace timeout, the shutdown sequence
\* still finishes within the per-task timeout plus a small margin and raises
\* nothing: it is never still waiting on the stuck task after that.
C1_ShutdownWithinGrace ==
    /\ ShuttingDown => elapsed <= PER_TASK_TIMEOUT + Margin
    /\ sup_pc # "raised"

\* C10: in both periodic loops an error raised by an iteration's unit of work
\* is caught and logged inside the loop and never terminates it: after a
\* failing iteration the loop is at its sleep or in a later iteration, or has
\* been cancelled from outside.
C10_IterationErrorStaysInLoop ==
    \A t \in Tasks :
        /\ task[t].result # "exception"
        /\ task[t].errs = "last" =>
              /\ <<"loop_error", t>> \in logged
              /\ \/ task[t].pc \in {"sleep", "work", "db"}
                 \/ task[t].pc = "done" /\ task[t].result = "cancelled"

C10_Witness ==
    \A t \in Tasks :
        /\ task[t].errs = "earlier"
        /\ task[t].pc = "sleep"
        /\ <<"loop_error", t>> \in logged

\* C11: once a periodic loop has been cancelled it exits at its in-flight
\* sleep or at the next suspension point of its in-flight unit of work: from
\* the cancellation on the task stays where it is until it ends cancelled, and
\* never starts or completes another iteration.
C11_CancelledLoopExits ==
    [][\A t \in Tasks :
          task[t].cancel_req =>
              \/ task'[t] = task[t]
              \/ task'[t].pc = "done" /\ task'[t].result = "cancelled"]_vars

C11_Witness ==
    /\ \A t \in Tasks : /\ task[t].cancel_req
                         /\ task[t].pc = "done" /\ task[t].result = "cancelled"
    /\ elapsed > 0

\* the task is not running: it was never created or its coroutine has ended
Stopped(t) == task[t].pc \in {"absent", "done"}

\* C12: in every shutdown the connection pool is disposed only after every
\* background task of the active set has been cancelled and awaited: once
\* the pool is disposed (or lifespan stands at the dispose) no task is
\* running, so none performs an iteration or a persistence write afterwards.
C12_PoolDisposedAfterTasks ==
    (pool_disposed \/ sup_pc = "dispose") =>
        /\ \A t \in Tasks : Stopped(t)
        /\ background_tasks = {}
        /\ todo = <<>>

C12_Witness ==
    /\ pool_disposed
    /\ \A t \in Tasks : task[t].pc = "done" /\ task[t].result = "cancelled"
    /\ \A t \in Tasks : <<"cancelled", t>> \in logged \/ <<"timeout", t>> \in logged

\* the configuration flag of task t
ConfigFlag(t) ==
    IF t = "metrics" THEN settings.metrics_enabled
    ELSE settings.fan_control.present /\ settings.fan_control.enabled

\* C13: at startup the supervisor launches a loop for each task whose
\* configuration flag is enabled and none for a disabled task (nor for fan
\* control when its settings are absent); a disabled task is never in the
\* active set, and its absence is logged as information and raises nothing.
C13_StartsExactlyEnabled ==
    /\ sup_pc = "init" => background_tasks = {}
    /\ sup_pc # "init" =>
          \A t \in Tasks :
              /\ task[t].pc # "absent" <=> ConfigFlag(t)
              /\ ConfigFlag(t) => <<"scheduled", t>> \in logged
              /\ ~ConfigFlag(t) => /\ <<"disabled", t>> \in logged
                                   /\ <<"scheduled", t>> \notin logged
    /\ \A t \in Tasks : ~ConfigFlag(t) => t \notin background_tasks
    /\ sup_pc # "raised"

C13_Witness ==
    /\ sup_pc = "serving"
    /\ settings.metrics_enabled /\ ~settings.fan_control.present
    /\ background_tasks = {"metrics"}
    /\ task["metrics"].pc = "sleep"
    /\ task["fan"].pc = "absent"

\* C20 as stated: on shutdown every task of the active set is cancelled
\* before the supervisor waits on any of them, so while it waits on one task
\* no other task of the active set is still uncancelled.
C20_AllCancelledBeforeWaiting ==
    sup_pc = "wait_for" => \A t \in background_tasks : task[t].cancel_req

\* the task is inside its `while True`: in a unit of work or in its sleep
Running(t) == task[t].pc \in {"work", "db", "sleep"}

EndsCancelled(t) ==
    /\ task[t].pc # "done"
    /\ task[t].cancel_req
    /\ task'[t].pc = "done" /\ task'[t].result = "cancelled"

UnitOfWorkEnds ==
    /\ task["metrics"].pc = "db"
    /\ task'["metrics"].pc # "db"
    /\ task'["metrics"].result # "cancelled"

\* C26: when storing a sample fails in an iteration of the metrics
\* collector, the failure is logged, the transaction is rolled back so that
\* no record from that iteration is stored, and the loop goes on to its
\* sleep and from there to its next iteration.
C26_StoreFailureDropsSample ==
    /\ [][(UnitOfWorkEnds /\ response'.request.outcome = "store_failed") =>
             /\ response'.detail = "Failed to store metrics"
             /\ metrics_table' = metrics_table
             /\ task'["metrics"].pc = "sleep"
             /\ task'["metrics"].result = "none"
             /\ "metrics" \in background_tasks']_vars
    /\ [][(task["metrics"].pc = "sleep" /\ task'["metrics"].pc # "sleep") =>
             \/ task'["metrics"].pc = "work"
             \/ EndsCancelled("metrics")]_vars

\* a sample was stored, the next one failed to store and was dropped, and
\* the loop has begun the iteration after it
C26_Witness ==
    /\ response.op = "collect_and_store_metrics"
    /\ response.request.outcome = "store_failed"
    /\ response.detail = "Failed to store metrics"
    /\ Len(metrics_table) = 1
    /\ task["metrics"].pc = "db"
    /\ task["metrics"].errs = "never"

\* C28: last_level_written is read and written by at most one logical task:
\* every step that touches the Fan Controller is a step of the one fan-control
\* task, no other task or the supervisor takes part in it, and the adjust
\* call acts on the value of last_level_written that holds when it is made,
\* so no two adjust calls interleave their read-modify-write.
C28_OneTaskDrivesController ==
    [][fanVars' # fanVars =>
          /\ "fan" \in background_tasks
          /\ task["fan"].pc \in {"created", "work"}
          /\ task'["metrics"] = task["metrics"]
          /\ metrics_table' = metrics_table
          /\ sup_pc' = sup_pc
          /\ call'.prev_last = last_pwm_written
          /\ last_pwm_written' # last_pwm_written =>
                /\ call'.op = "adjust_fan_speed"
                /\ last_pwm_written' \in {None, call'.pwm}]_vars

\* the fan loop adjusts from a level an earlier iteration wrote, while the
\* metrics loop is in the middle of a unit of work of its own
C28_Witness ==
    /\ call.op = "adjust_fan_speed"
    /\ call.prev_last # None
    /\ last_pwm_written # None
    /\ last_pwm_written # call.prev_last
    /\ task["fan"].pc = "sleep"
    /\ task["metrics"].pc = "db"
    /\ metrics_table # <<>>

\* C29: a cancellation of the fan-control task takes effect only at a
\* suspension point: the step in which the task ends cancelled touches
\* neither the actuator nor last_level_written, and every adjust cycle that
\* wrote made both its writes and set last_level_written from the level
\* write, also when the task was cancelled afterwards.
C29_CancelNeverSplitsCycle ==
    /\ [][EndsCancelled("fan") =>
             /\ task["fan"].pc \in {"created", "work", "sleep"}
             /\ fanVars' = fanVars]_vars
    /\ []((call.op = "adjust_fan_speed" /\ call.log # <<>>) =>
             /\ Len(call.log) = 2
             /\ call.log[1].arg = "enable_path"
             /\ call.log[2].arg = "control_path"
             /\ last_pwm_written = IF call.log[2].ok THEN call.pwm ELSE None)

\* the fan task was cancelled after a cycle that made both writes
C29_Witness ==
    /\ task["fan"].pc = "done" /\ task["fan"].result = "cancelled"
    /\ call.op = "adjust_fan_speed"
    /\ Len(call.log) = 2
    /\ call.log[2].ok
    /\ last_pwm_written = call.pwm
    /\ sup_pc = "done"

\* the fan task leaves a pass of its loop that was not cancelled
FanPassEnds ==
    /\ task["fan"].pc = "work"
    /\ task'["fan"].pc # "work"
    /\ task'["fan"].result # "cancelled"

\* C31: in a fan-control iteration where the sensor yields no CPU
\* temperature, adjust is not called: no actuator write occurs and
\* last_level_written is unchanged, and the loop still proceeds to its sleep
\* and from there to its next iteration.
C31_NoTemperatureSkipsAdjust ==
    /\ [][(FanPassEnds /\ task'["fan"].met = "no_cpu_temp") =>
             /\ call' = call
             /\ last_pwm_written' = last_pwm_written
             /\ last_ctl_write' = last_ctl_write
             /\ task'["fan"].pc = "sleep"
             /\ task'["fan"].result = "none"
             /\ "fan" \in background_tasks']_vars
    /\ [][(task["fan"].pc = "sleep" /\ task'["fan"].pc # "sleep") =>
             \/ task'["fan"].pc = "work"
             \/ EndsCancelled("fan")]_vars

\* an iteration wrote a level, the next one got no temperature and left the
\* level as it was, and the loop has begun the iteration after it
C31_Witness ==
    /\ task["fan"].met = "no_cpu_temp"
    /\ task["fan"].pc = "work"
    /\ call.op = "adjust_fan_speed"
    /\ Len(call.log) = 2
    /\ last_pwm_written = call.pwm
    /\ last_pwm_written # None

\* the fan task makes its first run with control enabled and both paths set
FanLoopStarts ==
    /\ task["fan"].pc = "created"
    /\ task'["fan"].pc # "created"
    /\ ~EndsCancelled("fan")
    /\ settings.fan_control.present /\ settings.fan_control.enabled
    /\ settings.fan_control.control_path # None
    /\ settings.fan_control.enable_path # None

\* C32: when the fan-control loop starts with control enabled and both paths
\* configured it performs exactly one mode-enable write before its first
\* iteration, whether or not the curve is empty and whether or not that
\* write succeeds; the write leaves last_level_written unchanged and its
\* failure does not keep the loop from running.
C32_OneEnableWriteAtStart ==
    /\ [][FanLoopStarts =>
             /\ call = NoCall
             /\ call'.op = "set_fan_manual_mode"
             /\ Len(call'.log) = 1
             /\ call'.log[1].arg = "enable_path"
             /\ call'.log[1].path = settings.fan_control.enable_path
             /\ call'.log[1].value = <<"1">>
             /\ call'.log[1].opened
             /\ last_pwm_written' = last_pwm_written
             /\ task'["fan"].pc = "work"
             /\ "fan" \in background_tasks']_vars
    /\ [](task["fan"].pc \in {"absent", "created"} => call = NoCall)

\* the initial mode-enable write failed, the curve is empty, and the loop
\* has made a pass and is in its sleep
C32_Witness ==
    /\ call.op = "set_fan_manual_mode"
    /\ Len(call.log) = 1
    /\ ~call.log[1].ok
    /\ settings.fan_control.curve = <<>>
    /\ last_pwm_written = None
    /\ task["fan"].met = "no_cpu_temp"
    /\ task["fan"].pc = "sleep"

\* lifespan() has returned from its shutdown
ShutdownComplete ==
    /\ sup_pc = "done"
    /\ pool_disposed
    /\ background_tasks = {}
    /\ \A t \in Tasks : task[t].pc \in {"absent", "done"}

\* C33: if every running task honours cancellation at its next suspension
\* point, a requested shutdown eventually completes: every task that was
\* running ends cancelled, the active set becomes empty, and the connection
\* pool is then disposed, exactly once.
C33_ShutdownCompletes ==
    /\ (sup_pc = "loop") ~> ShutdownComplete
    /\ [][\A t \in Tasks :
             (task[t].pc \in {"work", "db", "sleep"} /\ task'[t].pc = "done") =>
                 (sup_pc \in {"wait_for", "gather"} /\ task'[t].result = "cancelled")]_vars
    /\ [][pool_disposed' # pool_disposed =>
             /\ sup_pc = "dispose" /\ sup_pc' = "done"
             /\ pool_disposed'
             /\ background_tasks = {}
             /\ \A t \in Tasks : task[t].pc \in {"absent", "done"}]_vars
    /\ [][sup_pc = "done" => (sup_pc' = "done" /\ pool_disposed')]_vars

\* the shutdown is complete after the metrics task took some seconds to
\* honour its cancellation; both tasks ended cancelled
C33_Witness ==
    /\ ShutdownComplete
    /\ \A t \in Tasks : task[t].result = "cancelled"
    /\ elapsed >= 2
    /\ <<"pool_closed", "lifespan">> \in logged

\* the levels the fan loop can compute from the readings tried
LifeLevels == {0, 128}

\* the last pass of the fan loop got a temperature and computed level L
ComputedLevel(L) ==
    /\ task["fan"].met = "cpu_temp"
    /\ call.op = "adjust_fan_speed"
    /\ call.pwm = Some(L)

\* the last pass attempted a control-path write and it failed
LevelWriteFailed ==
    /\ call.op = "adjust_fan_speed"
    /\ \E i \in 1..Len(call.log) : call.log[i].arg = "control_path" /\ ~call.log[i].ok

\* C34: with control enabled, a non-empty curve and temperature readings
\* whose computed level stays at L, if control-path writes eventually
\* succeed then the fan-control loop eventually reaches
\* last_level_written = L, and from then on a pass that computes L performs
\* no actuator write.
C34_ConvergesToLevel ==
    /\ \A L \in LifeLevels :
          (<>[](ComputedLevel(L) /\ ~LevelWriteFailed)) => <>[](last_pwm_written = Some(L))
    /\ [][\A L \in LifeLevels :
             (FanPassEnds /\ last_pwm_written = Some(L) /\ task'["fan"].met = "cpu_temp"
                /\ call'.pwm = Some(L)) =>
                 /\ call'.log = <<>>
                 /\ last_pwm_written' = Some(L)
                 /\ last_ctl_write' = last_ctl_write]_vars

\* a pass wrote 128 and the pass after it computed 128 again and wrote
\* nothing
C34_Witness ==
    /\ ComputedLevel(128)
    /\ call.log = <<>>
    /\ call.prev_last = Some(128)
    /\ last_pwm_written = Some(128)
    /\ last_ctl_write = Some([level |-> 128, ok |-> TRUE])
    /\ task["fan"].errs = "never"
    /\ task["fan"].pc = "sleep"
    /\ sup_pc = "serving"

IsAdjust == call.op = "adjust_fan_speed"

\* the call made the write sequence: mode-enable, then level
WriteSequence(log) ==
    /\ Len(log) = 2
    /\ log[1].arg = "enable_path" /\ log[1].value = <<"1">>
    /\ log[2].arg = "control_path"

\* C2: whenever a control-path write attempted by adjust fails,
\* last_level_written is reset to None, and the very next adjust call (control
\* enabled, non-empty curve) attempts the control-path write again, also when
\* the computed level is the same as before.
C2_FailedWriteForcesRetry ==
    /\ (IsAdjust /\ CtlStatus(call.log) = "failed") => last_pwm_written = None
    /\ (/\ IsAdjust /\ Active(call.config)
        /\ call.before.op = "adjust_fan_speed" /\ call.before.ctl = "failed")
       => /\ call.prev_last = None
          /\ ControlWrites(call.log) # {}

C2_Witness ==
    /\ IsAdjust /\ Active(call.config)
    /\ call.before.op = "adjust_fan_speed" /\ call.before.ctl = "failed"
    /\ call.before.pwm = call.pwm
    /\ ControlWrites(call.log) # {}

\* two adjust calls in a row with the same temperature and the same
\* configuration (control enabled, non-empty curve)
SameTwice ==
    /\ IsAdjust /\ Active(call.config)
    /\ call.before.op = "adjust_fan_speed" /\ call.before.active
    /\ call.before.temp = call.temp

\* C3 as stated: adjust(T) twice in a row with the same T makes exactly one
\* write sequence; the second call performs no I/O and leaves
\* last_level_written unchanged.
C3_SecondCallAlwaysNoOp ==
    SameTwice => /\ call.log = <<>>
                 /\ last_pwm_written = call.prev_last

\* C3 amended: when adjust(T) is called twice in a row with the same T and
\* the first call's level write did not fail, the second call performs no I/O
\* and leaves last_level_written unchanged, so the pair makes at most one
\* write sequence (mode-enable, then level); when the first call's level
\* write failed, the second call makes the write sequence again.
C3_SecondCallNoOpUnlessFailed ==
    /\ IsAdjust => (call.log = <<>> \/ WriteSequence(call.log))
    /\ (SameTwice /\ call.before.ctl # "failed")
       => /\ call.log = <<>>
          /\ last_pwm_written = call.prev_last
    /\ (SameTwice /\ call.before.ctl = "failed") => WriteSequence(call.log)

C3_Witness ==
    /\ SameTwice
    /\ call.before.ctl = "ok"
    /\ call.log = <<>>
    /\ last_pwm_written = call.pwm

\* C4: whenever adjust computes a level equal to last_level_written it
\* performs no I/O at all and leaves last_level_written unchanged; whenever the
\* computed level differs from last_level_written (None included) it attempts
\* the write.
C4_SuppressIffEqual ==
    (IsAdjust /\ call.pwm # None) =>
        /\ call.pwm = call.prev_last =>
              /\ call.log = <<>>
              /\ last_pwm_written = call.prev_last
        /\ call.pwm # call.prev_last =>
              /\ EnableWrites(call.log) # {}
              /\ ControlWrites(call.log) # {}

C4_Witness ==
    /\ IsAdjust /\ call.pwm # None
    /\ call.pwm = call.prev_last
    /\ call.log = <<>>
    /\ call.before.pwm # call.pwm

C18_WriteHelperNeverRaises ==
    /\ \A i \in 1..Len(call.log) :
          LET w == call.log[i]
          IN  /\ ~w.raised
              /\ w.ok <=> w.written
              /\ w.written => w.opened
              /\ path_unset(w.path) => ~w.opened /\ ~w.ok
    /\ (IsAdjust /\ CtlStatus(call.log) # "none"
          /\ path_unset(call.config.control_path))
       => /\ CtlStatus(call.log) = "failed"
          /\ last_pwm_written = None
    /\ (IsAdjust /\ Active(call.config) /\ path_unset(call.config.control_path))
       => /\ CtlStatus(call.log) = "failed"
          /\ last_pwm_written = None

C18_Witness ==
    /\ IsAdjust /\ Active(call.config)
    /\ call.config.control_path = Some("")
    /\ call.before.op = "adjust_fan_speed" /\ call.before.ctl = "failed"
    /\ WriteSequence(call.log)
    /\ ~call.log[2].opened /\ ~call.log[2].ok
    /\ last_pwm_written = None

\* the transitions of the controller's state that the design names
UnknownToWritten ==
    /\ call.prev_last = None
    /\ CtlStatus(call.log) = "ok" /\ last_pwm_written = call.pwm
WrittenToUnknown ==
    /\ call.prev_last # None
    /\ CtlStatus(call.log) = "failed" /\ last_pwm_written = None
WrittenSelfLoop ==
    /\ call.prev_last # None
    /\ call.log = <<>> /\ last_pwm_written = call.prev_last
WrittenToWritten ==
    /\ call.prev_last # None /\ call.pwm # call.prev_last
    /\ CtlStatus(call.log) = "ok" /\ last_pwm_written = call.pwm

\* C21 as stated: last_level_written starts as None and every step of adjust
\* is Unknown -> Written(level) on a successful write, Written(level) ->
\* Unknown on a failed write, Written(level) -> Written(level) with no write,
\* or Written(levelA) -> Written(levelB) on a successful write.
C21_OnlyStatedTransitions ==
    /\ call.op = "none" => last_pwm_written = None
    /\ IsAdjust => \/ UnknownToWritten \/ WrittenToUnknown
                   \/ WrittenSelfLoop \/ WrittenToWritten

\* C21 amended: last_level_written starts as None and every step of adjust
\* is one of the four stated transitions (the self-loop taken while the
\* target is unchanged or control is inactive) or leaves the controller in
\* Unknown: Unknown -> Unknown on a failed write, or with no write when
\* control is disabled or the curve is empty; after any write attempt the
\* state is the written level if the write succeeded and None otherwise.
C21_TransitionsWithUnknownLoop ==
    /\ call.op = "none" => last_pwm_written = None
    /\ IsAdjust =>
          \/ UnknownToWritten
          \/ WrittenToUnknown
          \/ WrittenSelfLoop /\ (call.pwm = call.prev_last \/ ~Active(call.config))
          \/ WrittenToWritten
          \/ /\ call.prev_last = None /\ last_pwm_written = None
             /\ \/ CtlStatus(call.log) = "failed"
                \/ call.log = <<>> /\ ~Active(call.config)
    /\ (IsAdjust /\ CtlStatus(call.log) = "ok") => last_pwm_written = call.pwm
    /\ (IsAdjust /\ CtlStatus(call.log) = "failed") => last_pwm_written = None

C21_Witness ==
    /\ IsAdjust /\ WrittenToWritten
    /\ call.before.op = "adjust_fan_speed" /\ call.before.prev_last = None
    /\ call.before.ctl = "ok"

\* C22: in every adjust cycle that is not suppressed the token '1' is
\* written to the enable path before the level is written to the control
\* path, the level write is attempted whether or not the mode-enable write
\* succeeded, and last_level_written follows the level write alone.
C22_EnableThenLevelRegardless ==
    (IsAdjust /\ call.pwm # None /\ call.pwm # call.prev_last) =>
        /\ Len(call.log) = 2
        /\ call.log[1].arg = "enable_path"
        /\ call.log[1].path = call.config.enable_path
        /\ call.log[1].value = <<"1">>
        /\ call.log[2].arg = "control_path"
        /\ call.log[2].path = call.config.control_path
        /\ call.log[2].value = str(call.pwm[1])
        /\ last_pwm_written = IF call.log[2].ok THEN call.pwm ELSE None

C22_Witness ==
    /\ IsAdjust /\ Len(call.log) = 2
    /\ call.log[1].opened /\ ~call.log[1].ok
    /\ call.log[2].ok
    /\ call.log[2].value = <<"1", "2", "8">>
    /\ last_pwm_written = Some(128)

\* C30: in every reachable state _last_pwm_written is None or an integer in
\* 0..255 that is the value of the most recent write attempt on the control
\* path, and that attempt succeeded; a level whose write failed, or one that
\* was computed and not written, is never held
C30_LastIsLastSuccessfulWrite ==
    /\ last_pwm_written # None =>
          /\ last_pwm_written[1] \in 0..255
          /\ last_ctl_write = Some([level |-> last_pwm_written[1], ok |-> TRUE])
    /\ (last_ctl_write # None /\ ~last_ctl_write[1].ok) => last_pwm_written = None
    /\ (IsAdjust /\ call.pwm # None /\ call.log = <<>>) =>
          last_pwm_written = call.prev_last

\* a level was computed and left unwritten because it is the one held, which
\* the call before wrote from the unknown state
C30_Witness ==
    /\ IsAdjust
    /\ call.pwm # None
    /\ call.log = <<>>
    /\ last_pwm_written = Some(255)
    /\ last_ctl_write = Some([level |-> 255, ok |-> TRUE])
    /\ call.before.op = "adjust_fan_speed"
    /\ call.before.ctl = "ok"
    /\ call.before.prev_last = None

\* C9: if control is disabled or the curve is empty, adjust performs no
\* actuator write and leaves last_level_written unchanged, for every
\* temperature and every prior controller state.
C9_InactiveIsNoOp ==
    (IsAdjust /\ (~call.config.enabled \/ call.config.curve = <<>>)) =>
        /\ call.log = <<>>
        /\ last_pwm_written = call.prev_last

C9_Witness ==
    /\ IsAdjust
    /\ call.config.enabled /\ call.config.curve = <<>>
    /\ call.prev_last # None
    /\ call.log = <<>>
    /\ last_pwm_written = call.prev_last


(***************************************************************************)
(* Properties of the pure computations (specification SpecCurve).          *)
(***************************************************************************)
\* indices of the breakpoints of curve c whose temperature does not exceed t
NotAbove(c, t) == {i \in 1..Len(c) : c[i].temp <= t}

SetMax(S) == CHOOSE m \in S : \A x \in S : x <= m

\* C6: for every curve sorted ascending by temperature and every temperature
\* T, the scanned target speed is the speed of the highest breakpoint whose
\* temperature does not exceed T, and 0 when T is below every breakpoint; on
\* the curve [(40,0),(60,50),(80,100)] the inputs 39, 40, 61, 100 give
\* 0, 0, 50, 100.
C6_ScanPicksHighestNotAbove ==
    ev.op = "evaluate" =>
        /\ ev.out = IF NotAbove(ev.curve, ev.temp) = {} THEN 0
                    ELSE ev.curve[SetMax(NotAbove(ev.curve, ev.temp))].speed
        /\ ev.curve = ExampleCurve =>
              /\ ev.temp = 39 => ev.out = 0
              /\ ev.temp = 40 => ev.out = 0
              /\ ev.temp = 61 => ev.out = 50
              /\ ev.temp = 100 => ev.out = 100

C6_Witness ==
    /\ ev.op = "evaluate"
    /\ ev.curve = ExampleCurve
    /\ ev.temp = 61
    /\ ev.out = 50

\* C7 as stated: for every curve accepted by the validator and every
\* breakpoint b of it, evaluating at b's temperature returns b's speed.
C7_EveryBreakpointInclusive ==
    ev.op = "evaluate" =>
        \A i \in 1..Len(ev.curve) :
            ev.curve[i].temp = ev.temp => ev.out = ev.curve[i].speed

\* C7 amended: for every curve accepted by the validator, evaluating at a
\* breakpoint's temperature returns the speed of the last breakpoint that has
\* that temperature; so it returns b's own speed for every breakpoint b that
\* no later breakpoint shares its temperature with.
C7_LastBreakpointInclusive ==
    ev.op = "evaluate" =>
        \A i \in 1..Len(ev.curve) :
            /\ ev.curve[i].temp = ev.temp
            /\ \A j \in (i + 1)..Len(ev.curve) : ev.curve[j].temp # ev.temp
            => ev.out = ev.curve[i].speed

C7_Witness ==
    /\ ev.op = "evaluate"
    /\ Len(ev.curve) = 3
    /\ ev.curve[1].temp = ev.temp
    /\ ev.curve[2].temp = ev.temp
    /\ ev.curve[3].temp > ev.temp
    /\ ev.curve[1].speed # ev.curve[2].speed
    /\ ev.out = ev.curve[2].speed

\* the breakpoints of curve c are in non-decreasing order of temperature
NonDecreasing(c) == \A i, j \in 1..Len(c) : i < j => c[i].temp <= c[j].temp

\* C19: configuration loading rejects every fan curve whose breakpoints are
\* not sorted ascending by temperature and accepts every sorted one, the
\* empty curve included, so every curve held by loaded fan-control settings
\* (and every curve that is evaluated) is non-decreasing by temperature.
C19_LoadAcceptsExactlySorted ==
    /\ ev.op = "check_curve_sorted" => (ev.accepted <=> NonDecreasing(ev.curve))
    /\ (ev.op = "check_curve_sorted" /\ ev.curve = <<>>) => ev.accepted
    /\ ev.accepted => NonDecreasing(ev.curve)

C19_Witness ==
    /\ ev.op = "check_curve_sorted"
    /\ ~ev.accepted
    /\ Len(ev.curve) = 3
    /\ ev.curve[1].temp < ev.curve[3].temp
    /\ ev.curve[3].temp < ev.curve[2].temp

\* C8: for every target speed s in [0,100] the level is
\* clamp(ceil(s/100 * 255), 0, 255): it lies in 0..255, it is not below
\* s/100 * 255, it is the least such integer, and a 1% target gives 3.
C8_CeilingNeverUnderDrives ==
    ev.op = "target_pwm" =>
        /\ ev.out \in 0..255
        /\ ev.out * 100 >= ev.speed * 255
        /\ (ev.out - 1) * 100 < ev.speed * 255
        /\ ev.speed = 1 => ev.out = 3

C8_Witness ==
    /\ ev.op = "target_pwm"
    /\ ev.speed = 1
    /\ ev.out = 3

(***************************************************************************)
(* Properties of the query API (specification SpecApi).                    *)
(***************************************************************************)
IsRange == response.op = "get_metrics_in_range"

\* the limit in force for the request: the parameter, or the default
LimitOf(request) == IF request.limit = None THEN 100 ELSE request.limit[1]

\* the request passes the validation of its limit parameter
LimitAccepted(request) == LimitOf(request) \in 1..1000

\* the stored rows whose timestamp lies in [start_time, end_time]
StoredWithin(request) ==
    {i \in 1..Len(metrics_table) :
        /\ request.start_time <= metrics_table[i].timestamp
        /\ metrics_table[i].timestamp <= request.end_time}

\* C14: for every pair of timestamps with start_time >= end_time, equal
\* timestamps included, the range query is never answered with a success or
\* an empty list, whatever is stored; a request whose limit is acceptable
\* is rejected with status 400 and the detail 'Start time must be before end
\* time.' (a limit outside 1..1000 is rejected before that, by the parameter
\* validation).
C14_InvalidRangeRejected ==
    (IsRange /\ response.request.start_time >= response.request.end_time) =>
        /\ response.status # 200
        /\ response.status \in {400, 422}
        /\ LimitAccepted(response.request) =>
              /\ response.status = 400
              /\ response.detail = "Start time must be before end time."
              /\ response.body = <<>>

C14_Witness ==
    /\ IsRange
    /\ response.request.start_time = response.request.end_time
    /\ response.request.limit = None
    /\ StoredWithin(response.request) # {}
    /\ response.status = 400
    /\ response.detail = "Start time must be before end time."

\* C15: for start_time < end_time and a limit in 1..1000 (default 100) the
\* range query succeeds and returns exactly stored rows with
\* start_time <= timestamp <= end_time, each at most once, in ascending
\* order of timestamp, and as many of them as the limit allows: the first
\* `limit` of them in that order.
C15_RangeInclusiveAscendingLimited ==
    (/\ IsRange
     /\ response.request.start_time < response.request.end_time
     /\ LimitAccepted(response.request)) =>
        LET body == response.body
            within == StoredWithin(response.request)
        IN  /\ response.status = 200
            /\ \A k \in 1..Len(body) :
                  \E i \in within : /\ body[k] = metrics_table[i]
                                    /\ body[k].id = i
            /\ \A k, l \in 1..Len(body) :
                  k < l => /\ body[k].timestamp <= body[l].timestamp
                           /\ body[k].id # body[l].id
            /\ Len(body) = Min(LimitOf(response.request), Cardinality(within))
            /\ \A i \in within :
                  (\A k \in 1..Len(body) : body[k].id # i) =>
                      \A k \in 1..Len(body) :
                          body[k].timestamp <= metrics_table[i].timestamp

C15_Witness ==
    /\ IsRange /\ response.status = 200
    /\ response.request.limit = Some(2)
    /\ Cardinality(StoredWithin(response.request)) = 3
    /\ Len(response.body) = 2
    /\ response.body[1].timestamp = response.request.start_time
    /\ response.body[1].timestamp < response.body[2].timestamp
    /\ \E i \in 1..Len(metrics_table) :
          metrics_table[i].timestamp = response.request.end_time

\* C16: after any sequence of stored records the latest-metric query
\* answers with a success status and at most one record: null when nothing
\* is stored, else a stored record whose timestamp no stored record exceeds.
C16_LatestIsGreatestTimestamp ==
    response.op = "get_latest_metric" =>
        /\ response.status = 200
        /\ Len(response.body) <= 1
        /\ response.body = None <=> metrics_table = <<>>
        /\ response.body # None =>
              /\ \E i \in 1..Len(metrics_table) : response.body[1] = metrics_table[i]
              /\ \A i \in 1..Len(metrics_table) :
                    metrics_table[i].timestamp <= response.body[1].timestamp

C16_Witness ==
    /\ response.op = "get_latest_metric"
    /\ Len(metrics_table) = 3
    /\ response.body # None
    /\ response.body[1].id = 2
    /\ \A i \in {1, 3} : metrics_table[i].timestamp < response.body[1].timestamp

(***************************************************************************)
(* Properties of the sensor reader (specification SpecReader).             *)
(***************************************************************************)
\* the host can deliver the signal: its read succeeds and, for the fan, the
\* file holds an integer
Readable(env, signal) ==
    CASE signal = "cpu_percent" -> env.cpu = "ok"
      [] signal = "memory_percent" -> env.memory = "ok"
      [] signal = "disk_usage_percent" -> env.disk = "ok"
      [] signal = "cpu_temp_celsius" -> env.temp = "ok"
      [] signal = "fan_speed_percent" ->
            env.fan.status = "ok" /\ int(strip(env.fan.text)) # None

SignalNames ==
    {"cpu_percent", "memory_percent", "disk_usage_percent", "cpu_temp_celsius",
     "fan_speed_percent"}

\* C17: reading a sample never raises: for every subset of the five signals
\* whose read fails or is unavailable the reader returns a sample in which
\* exactly those signals are None and every signal that could be read is
\* populated (the fan speed as a percentage within 0..100).
C17_ReadNeverRaises ==
    response.op = "get_system_metrics" =>
        LET env == response.request
            sample == response.body.metrics
        IN  /\ ~response.body.raised
            /\ DOMAIN sample = SignalNames
            /\ \A signal \in SignalNames :
                  sample[signal] = None <=> ~Readable(env, signal)
            /\ \A signal \in SignalNames \ {"fan_speed_percent"} :
                  Readable(env, signal) => sample[signal] = Some(PsutilValues[signal])
            /\ Readable(env, "fan_speed_percent") =>
                  LET fan == sample["fan_speed_percent"][1]
                  IN  /\ fan.num >= 0 /\ fan.num <= 100 * fan.den
                      /\ env.fan.text = <<"1", "2", "8", "\n">> =>
                            fan = [num |-> 12800, den |-> 255]

C17_Witness ==
    /\ response.op = "get_system_metrics"
    /\ response.request.cpu = "ok" /\ response.request.memory = "raises"
    /\ response.request.temp = "raises"
    /\ response.request.fan.status = "ok"
    /\ response.request.fan.text = <<"1", "2", "8", "\n">>
    /\ response.body.metrics.cpu_percent = Some(15)
    /\ response.body.metrics.memory_percent = None
    /\ response.body.metrics.cpu_temp_celsius = None
    /\ response.body.metrics.fan_speed_percent # None


(***************************************************************************)
(* Properties of the collector's stored records (specification SpecApi).   *)
(***************************************************************************)
\* C27 as stated: every record stored by the metrics collector carries all
\* five values of the sample read in that poll (CPU, memory, disk, CPU
\* temperature, fan speed), each the value read or absent when the sensor
\* was unavailable.
C27_StoredRecordCarriesSample ==
    [][Len(metrics_table') = Len(metrics_table) + 1 =>
          LET row == metrics_table'[Len(metrics_table')]
          IN  \E env \in ApiEnvs :
                 \A signal \in SignalNames :
                    row[signal] = get_system_metrics(env).metrics[signal]]_vars

====
